---- MODULE Spec2Model ----
(***************************************************************************)
(* A model of rdapi.py: the RD client (construction, the four request      *)
(* methods get/post/put/delete, the shared response handler) and the       *)
(* resource-group methods that delegate to them.                           *)
(*                                                                         *)
(* Python values are tagged pairs <<type, value>>, so that the integer 8   *)
(* and the string "8" are different values, as they are in Python.         *)
(***************************************************************************)
EXTENDS Integers, Sequences, FiniteSets, TLC

VARIABLES
    pc,                \* position of the caller: new, failed, idle, rd, put_transfer, put_exit, handler, method, done
    environ,           \* os.environ's RD_APITOKEN: None when unset
    error_codes_file,  \* error_codes.json on disk: ok, missing or malformed
    ctor_arg,          \* the api_token argument RD(...) was called with
    rd,                \* the client object: rd_apitoken, base_url, header, error_codes
    raised,            \* the exception that left the last operation, "" when none
    call,              \* the resource-group method invoked and the keyword arguments supplied
    desc,              \* what that method asked of get/post/put/delete
    sent,              \* the HTTP requests issued during the current call
    pending,           \* exception raised inside put's with-block, on its way out
    response,          \* the response object the HTTP library produced
    file,              \* the handle put opens: none, open, closed
    log,               \* logging.error records written during the current call
    returned,          \* what get/post/put/delete gave back to the method
    result             \* what the resource-group method gave back to its caller

vars == <<pc, environ, error_codes_file, ctor_arg, rd, raised, call, desc, sent,
          pending, response, file, log, returned, result>>

----------------------------------------------------------------------------
(* Bounds of the model *)

MaxCode == 3        \* vendor error codes carried by bodies range over -1..MaxCode
MaxId == 1          \* integer identifiers passed to methods range over 0..MaxId

----------------------------------------------------------------------------
(* Python values *)

None == <<"none", "">>
Absent == <<"absent", "">>      \* a parameter the caller did not pass
PyStr(s) == <<"str", s>>
PyInt(n) == <<"int", n>>
PyList == <<"list", "">>        \* some list: unhashable

Digit(d) ==
    CASE d = 0 -> "0" [] d = 1 -> "1" [] d = 2 -> "2" [] d = 3 -> "3" [] d = 4 -> "4"
      [] d = 5 -> "5" [] d = 6 -> "6" [] d = 7 -> "7" [] d = 8 -> "8" [] d = 9 -> "9"

RECURSIVE NatStr(_)
NatStr(n) == IF n < 10 THEN Digit(n) ELSE NatStr(n \div 10) \o Digit(n % 10)

\* str(v)
str(v) ==
    CASE v[1] = "str" -> v[2]
      [] v[1] = "int" -> IF v[2] < 0 THEN "-" \o NatStr(0 - v[2]) ELSE NatStr(v[2])
      [] v[1] = "none" -> "None"
      [] v[1] = "list" -> "[]"

\* a parameter with a default value in a def's signature
Default(x, d) == IF x = Absent THEN d ELSE x

----------------------------------------------------------------------------
(* Construction: RD.__init__ *)

\* the contents of error_codes.json: a JSON object, so every key is a string
ErrorCodesFile ==
    { <<"-1", "Internal error">>,
      <<"1", "Missing parameter">>,
      <<"2", "Bad parameter value">> }

\* json.load of that file: a dict whose keys are str
json_load(f) == { <<PyStr(e[1]), e[2]>> : e \in f }

\* dict.get(key, default)
dict_get(d, key, default) ==
    IF \E e \in d : e[1] = key
    THEN (CHOOSE e \in d : e[1] = key)[2]
    ELSE default

\* faulty variant: the environment takes precedence over the argument
effective_token_env_first(api_token, env) == IF env # None THEN env ELSE api_token

\* lines 21-23: the argument, or the environment when the argument is None
effective_token(api_token, env) == IF api_token = None THEN env ELSE api_token

\* line 24
token_rejected(tok) == tok = None \/ tok = PyStr("")

base_url == "https://api.real-debrid.com/rest/1.0"

\* line 29
make_header(tok) == { <<"Authorization", "Bearer " \o str(tok)>> }

NoClient == [rd_apitoken |-> None, header |-> {}, error_codes |-> {}]

RD_init(api_token) ==
    /\ pc = "new"
    /\ ctor_arg' = api_token
    /\ LET tok == effective_token(api_token, environ) IN
         IF token_rejected(tok)
         THEN /\ raised' = "ValueError"
              /\ pc' = "failed"
              /\ rd' = rd
         ELSE IF error_codes_file = "missing"
         THEN /\ raised' = "FileNotFoundError"
              /\ pc' = "failed"
              /\ rd' = rd
         ELSE IF error_codes_file = "malformed"
         THEN /\ raised' = "JSONDecodeError"
              /\ pc' = "failed"
              /\ rd' = rd
         ELSE /\ raised' = ""
              /\ pc' = "idle"
              /\ rd' = [rd_apitoken |-> tok,
                        header |-> make_header(tok),
                        error_codes |-> json_load(ErrorCodesFile)]
    /\ UNCHANGED <<environ, error_codes_file, call, desc, sent, pending, response,
                   file, log, returned, result>>

\* Python's exception hierarchy, as far as the except clauses here see it
IsInstance(exc, cls) ==
    \/ exc = cls
    \/ cls = "Exception" /\ exc # ""
    \/ cls = "ValueError" /\ exc = "JSONDecodeError"
    \/ cls = "OSError" /\ exc \in {"FileNotFoundError", "ConnectionError", "Timeout", "HTTPError"}
    \/ cls = "RequestException" /\ exc \in {"HTTPError", "ConnectionError", "Timeout"}

----------------------------------------------------------------------------
(* What a resource-group method asks of the client: the verb, the path, the *)
(* keyword arguments it forwards (name/value pairs, None included), the     *)
(* file to upload, and whether it decodes the response with .json().        *)

Get(path, options) ==
    [verb |-> "GET", path |-> path, payload |-> options, filepath |-> None, decode |-> FALSE]

Post(path, payload) ==
    [verb |-> "POST", path |-> path, payload |-> payload, filepath |-> None, decode |-> FALSE]

Put(path, filepath, payload) ==
    [verb |-> "PUT", path |-> path, payload |-> payload, filepath |-> filepath, decode |-> FALSE]

Delete(path) ==
    [verb |-> "DELETE", path |-> path, payload |-> {}, filepath |-> None, decode |-> FALSE]

\* the method returns rd.<verb>(...).json() instead of the response
Json(d) == [d EXCEPT !.decode = TRUE]

NoDesc == Delete("")

(* class System *)
System_disable_token == Get("/disable_access_token", {})
System_time == Get("/time", {})
System_iso_time == Get("/time/iso", {})

(* class User *)
User_get == Json(Get("/user", {}))

(* class Unrestrict *)
Unrestrict_check(link, password) ==
    Json(Post("/unrestrict/check",
              { <<"link", link>>, <<"password", Default(password, None)>> }))

Unrestrict_link(link, password, remote) ==
    Json(Post("/unrestrict/link",
              { <<"link", link>>, <<"password", Default(password, None)>>,
                <<"remote", Default(remote, None)>> }))

Unrestrict_folder(link) == Post("/unrestrict/folder", { <<"link", link>> })
Unrestrict_container_file(filepath) == Put("/unrestrict/containerFile", filepath, {})
Unrestrict_container_link(link) == Post("/unrestrict/containerLink", { <<"link", link>> })

(* class Traffic *)
Traffic_get == Json(Get("/traffic", {}))

Traffic_details(start, end) ==
    Json(Get("/traffic/details",
             { <<"start", Default(start, None)>>, <<"end", Default(end, None)>> }))

(* class Streaming *)
Streaming_transcode(id) == Json(Get("/streaming/transcode/" \o str(id), {}))
Streaming_media_info(id) == Json(Get("/streaming/mediaInfos/" \o str(id), {}))

(* class Downloads *)
\* faulty variant: offset defaults to 0 instead of None
Downloads_get_zero_defaults(offset, page, limit) ==
    Get("/downloads",
        { <<"offset", Default(offset, PyInt(0))>>, <<"page", Default(page, None)>>,
          <<"limit", Default(limit, None)>> })

Downloads_get(offset, page, limit) ==
    Get("/downloads",
        { <<"offset", Default(offset, None)>>, <<"page", Default(page, None)>>,
          <<"limit", Default(limit, None)>> })

Downloads_delete(id) == Delete("/downloads/delete/" \o str(id))

(* class Torrents *)
Torrents_get(offset, page, limit, filter) ==
    Get("/torrents",
        { <<"offset", Default(offset, None)>>, <<"page", Default(page, None)>>,
          <<"limit", Default(limit, None)>>, <<"filter", Default(filter, None)>> })

Torrents_info(id) == Get("/torrents/info/" \o str(id), {})
Torrents_instant_availability(hash) == Get("/torrents/instantAvailability/" \o str(hash), {})
Torrents_active_count == Get("/torrents/activeCount", {})
Torrents_available_hosts == Get("/torrents/availableHosts", {})

Torrents_add_file(filepath, host) ==
    Put("/torrents/addTorrent", filepath, { <<"host", Default(host, None)>> })

\* faulty variant: the hash is posted without the magnet prefix
Torrents_add_magnet_no_prefix(magnet, host) ==
    Post("/torrents/addMagnet",
         { <<"magnet", PyStr(str(magnet))>>, <<"host", Default(host, None)>> })

Torrents_add_magnet(magnet, host) ==
    LET magnet_link == "magnet:?xt=urn:btih:" \o str(magnet) IN
    Post("/torrents/addMagnet",
         { <<"magnet", PyStr(magnet_link)>>, <<"host", Default(host, None)>> })

Torrents_select_files(id, files) ==
    Post("/torrents/selectFiles/" \o str(id), { <<"files", PyStr(str(files))>> })

Torrents_delete(id) == Delete("/torrents/delete/" \o str(id))

(* class Hosts *)
Hosts_get == Get("/hosts", {})
Hosts_status == Get("/hosts/status", {})
Hosts_regex == Get("/hosts/regex", {})
Hosts_regex_folder == Get("/hosts/regexFolder", {})
Hosts_domains == Get("/hosts/domains", {})

(* class Settings *)
Settings_get == Get("/settings", {})

Settings_update(setting_name, setting_value) ==
    Post("/settings/update",
         { <<"setting_name", setting_name>>, <<"setting_value", setting_value>> })

Settings_convert_points == Post("/settings/convertPoints", {})
Settings_change_password == Post("/settings/changePassword", {})
Settings_avatar_file(filepath) == Put("/settings/avatarFile", filepath, {})
Settings_avatar_delete == Delete("/settings/avatarDelete")

----------------------------------------------------------------------------
(* The callers: which method is invoked and with which keyword arguments. *)

\* the value the caller passed for parameter n, Absent when it passed none
Kw(kwargs, n) ==
    IF \E p \in kwargs : p[1] = n
    THEN (CHOOSE p \in kwargs : p[1] = n)[2]
    ELSE Absent

\* every way of passing values of V for all of the names
All(names, V) ==
    { { <<n, f[n]>> : n \in names } : f \in [names -> V] }

\* every way of passing values of V for some of the names
Some(names, V) ==
    UNION { All(S, V) : S \in SUBSET names }

Ids == { PyInt(i) : i \in 0..MaxId } \cup { PyStr("ABCDEF") }
Links == { PyStr("http://host/f") }
Filepaths == { PyStr("f.torrent") }
Passwords == { None, PyStr(""), PyStr("pw") }
Numbers == { None, PyInt(MaxId) }
Words == { None, PyStr("w") }

Invoke(m, req, opt) == { [method |-> m, kwargs |-> r \cup o] : r \in req, o \in opt }
Plain(ms) == { [method |-> m, kwargs |-> {}] : m \in ms }

Calls ==
    Plain({ "system.disable_token", "system.time", "system.iso_time", "user.get",
            "traffic.get", "torrents.active_count", "torrents.available_hosts",
            "hosts.get", "hosts.status", "hosts.regex", "hosts.regex_folder",
            "hosts.domains", "settings.get", "settings.convert_points",
            "settings.change_password", "settings.avatar_delete" })
    \cup Invoke("unrestrict.check", All({"link"}, Links), Some({"password"}, Passwords))
    \cup Invoke("unrestrict.link", All({"link"}, Links),
                { a \cup b : a \in Some({"password"}, Passwords), b \in Some({"remote"}, Numbers) })
    \cup Invoke("unrestrict.folder", All({"link"}, Links), {{}})
    \cup Invoke("unrestrict.container_file", All({"filepath"}, Filepaths), {{}})
    \cup Invoke("unrestrict.container_link", All({"link"}, Links), {{}})
    \cup Invoke("traffic.details", {{}}, Some({"start", "end"}, Words))
    \cup Invoke("streaming.transcode", All({"id"}, Ids), {{}})
    \cup Invoke("streaming.media_info", All({"id"}, Ids), {{}})
    \cup Invoke("downloads.get", {{}}, Some({"offset", "page", "limit"}, Numbers))
    \cup Invoke("downloads.delete", All({"id"}, Ids), {{}})
    \cup Invoke("torrents.get", {{}},
                { a \cup b : a \in Some({"offset", "page", "limit"}, Numbers),
                             b \in Some({"filter"}, Words) })
    \cup Invoke("torrents.info", All({"id"}, Ids), {{}})
    \cup Invoke("torrents.instant_availability", All({"hash"}, Ids), {{}})
    \cup Invoke("torrents.add_file", All({"filepath"}, Filepaths), Some({"host"}, Words))
    \cup Invoke("torrents.add_magnet", All({"magnet"}, Ids \cup {None}), Some({"host"}, Words))
    \cup Invoke("torrents.select_files", All({"id"}, Ids), All({"files"}, {PyStr("all"), PyInt(MaxId)}))
    \cup Invoke("torrents.delete", All({"id"}, Ids), {{}})
    \cup Invoke("settings.update", All({"setting_name"}, {PyStr("locale")}),
                All({"setting_value"}, {PyStr("fr"), PyInt(MaxId)}))
    \cup Invoke("settings.avatar_file", All({"filepath"}, Filepaths), {{}})

\* the body of the method named c.method, run on the arguments c.kwargs
Dispatch(c) ==
    LET k(n) == Kw(c.kwargs, n) IN
    CASE c.method = "system.disable_token" -> System_disable_token
      [] c.method = "system.time" -> System_time
      [] c.method = "system.iso_time" -> System_iso_time
      [] c.method = "user.get" -> User_get
      [] c.method = "unrestrict.check" -> Unrestrict_check(k("link"), k("password"))
      [] c.method = "unrestrict.link" -> Unrestrict_link(k("link"), k("password"), k("remote"))
      [] c.method = "unrestrict.folder" -> Unrestrict_folder(k("link"))
      [] c.method = "unrestrict.container_file" -> Unrestrict_container_file(k("filepath"))
      [] c.method = "unrestrict.container_link" -> Unrestrict_container_link(k("link"))
      [] c.method = "traffic.get" -> Traffic_get
      [] c.method = "traffic.details" -> Traffic_details(k("start"), k("end"))
      [] c.method = "streaming.transcode" -> Streaming_transcode(k("id"))
      [] c.method = "streaming.media_info" -> Streaming_media_info(k("id"))
      [] c.method = "downloads.get" -> Downloads_get(k("offset"), k("page"), k("limit"))
      [] c.method = "downloads.delete" -> Downloads_delete(k("id"))
      [] c.method = "torrents.get" -> Torrents_get(k("offset"), k("page"), k("limit"), k("filter"))
      [] c.method = "torrents.info" -> Torrents_info(k("id"))
      [] c.method = "torrents.instant_availability" -> Torrents_instant_availability(k("hash"))
      [] c.method = "torrents.active_count" -> Torrents_active_count
      [] c.method = "torrents.available_hosts" -> Torrents_available_hosts
      [] c.method = "torrents.add_file" -> Torrents_add_file(k("filepath"), k("host"))
      [] c.method = "torrents.add_magnet" -> Torrents_add_magnet(k("magnet"), k("host"))
      [] c.method = "torrents.select_files" -> Torrents_select_files(k("id"), k("files"))
      [] c.method = "torrents.delete" -> Torrents_delete(k("id"))
      [] c.method = "hosts.get" -> Hosts_get
      [] c.method = "hosts.status" -> Hosts_status
      [] c.method = "hosts.regex" -> Hosts_regex
      [] c.method = "hosts.regex_folder" -> Hosts_regex_folder
      [] c.method = "hosts.domains" -> Hosts_domains
      [] c.method = "settings.get" -> Settings_get
      [] c.method = "settings.update" -> Settings_update(k("setting_name"), k("setting_value"))
      [] c.method = "settings.convert_points" -> Settings_convert_points
      [] c.method = "settings.change_password" -> Settings_change_password
      [] c.method = "settings.avatar_file" -> Settings_avatar_file(k("filepath"))
      [] c.method = "settings.avatar_delete" -> Settings_avatar_delete

----------------------------------------------------------------------------
(* The HTTP library, as far as the client uses it *)

\* parameter encoding of params= and data=: a pair whose value is None is left out,
\* every other value is sent as its string form
encode_params(payload) ==
    { <<p[1], str(p[2])>> : p \in { q \in payload : q[2] # None } }

\* a decoded JSON value: its type, whether 'error_code' in value holds, and
\* value['error_code'] when value is an object that has the key
JsonValue(type, has, error_code) == [type |-> type, has |-> has, error_code |-> error_code]

JsonNull == JsonValue("null", FALSE, None)

ErrorCodes == { PyInt(i) : i \in (-1)..MaxCode }

JsonValues ==
    { JsonValue("object", FALSE, None) }
    \cup { JsonValue("object", TRUE, c) : c \in ErrorCodes \cup { PyStr("2"), PyList } }
    \cup { JsonValue(t, h, None) : t \in {"array", "string"}, h \in BOOLEAN }
    \cup { JsonValue("number", FALSE, None), JsonNull }

Bodies ==
    { [kind |-> "empty", value |-> JsonNull], [kind |-> "malformed", value |-> JsonNull] }
    \cup { [kind |-> "json", value |-> v] : v \in JsonValues }

\* status codes of HTTP responses (three digits, classes 1xx-5xx); the library
\* follows 1xx itself, so representatives of 2xx, 3xx, 4xx and 5xx are taken
Statuses == { 200, 304, 400, 404, 500, 599 }

Responses == [status : Statuses, body : Bodies]

NoResponse == [status |-> 0, body |-> [kind |-> "empty", value |-> JsonNull]]

\* what a request comes to: a response, or an exception of the HTTP library
Outcomes ==
    { [exc |-> "", resp |-> r] : r \in Responses }
    \cup { [exc |-> e, resp |-> NoResponse] : e \in {"ConnectionError", "Timeout"} }

\* Response.raise_for_status(): the exception it raises, "" when it returns
raise_for_status(resp) ==
    IF 400 <= resp.status /\ resp.status < 600 THEN "HTTPError" ELSE ""

\* Response.json(): the decoded body, or the exception it raises
response_json(resp) ==
    IF resp.body.kind = "json"
    THEN [exc |-> "", value |-> resp.body.value]
    ELSE [exc |-> "JSONDecodeError", value |-> JsonNull]

----------------------------------------------------------------------------
(* RD.handler *)

Entry(channel, code, text) == [channel |-> channel, code |-> code, text |-> text]

\* lines 59-68: the status check and its except clauses
status_check(resp) ==
    LET e == raise_for_status(resp) IN
    IF e = "" THEN [log |-> <<>>, exc |-> ""]
    ELSE IF \/ IsInstance(e, "HTTPError") \/ IsInstance(e, "ConnectionError")
            \/ IsInstance(e, "Timeout") \/ IsInstance(e, "RequestException")
    THEN [log |-> << Entry("transport", PyInt(resp.status), e) >>, exc |-> ""]
    ELSE [log |-> <<>>, exc |-> e]

\* lines 71-74: the exception the inspection of the body raises, "" when none
inspect_raises(resp) ==
    LET j == response_json(resp) IN
    IF j.exc # "" THEN j.exc
    ELSE IF j.value.type \in {"number", "null"} THEN "TypeError"    \* 'error_code' in 5
    ELSE IF ~ j.value.has THEN ""
    ELSE IF j.value.type # "object" THEN "TypeError"                \* "..."['error_code']
    ELSE IF j.value.error_code = PyList THEN "TypeError"            \* unhashable key
    ELSE ""

\* lines 71-74: the record logged when the inspection raises nothing
inspect_log(error_codes, resp) ==
    LET j == response_json(resp) IN
    IF j.value.has
    THEN LET code == j.value.error_code
             error_message == dict_get(error_codes, code, "Unknown Error")
         IN  << Entry("application", code, "Error " \o str(code) \o ": " \o error_message) >>
    ELSE <<>>

\* faulty variant: the inspection without its except clause
body_check_uncaught(error_codes, resp) ==
    LET e == inspect_raises(resp) IN
    IF e = "" THEN [log |-> inspect_log(error_codes, resp), exc |-> ""]
    ELSE [log |-> <<>>, exc |-> e]

\* lines 70-76: the inspection of the body and its except clause
body_check(error_codes, resp) ==
    LET e == inspect_raises(resp) IN
    IF e = "" THEN [log |-> inspect_log(error_codes, resp), exc |-> ""]
    ELSE IF IsInstance(e, "Exception")
    THEN [log |-> << Entry("inspection", None,
                           "An error occurred while handling the response: " \o e) >>,
          exc |-> ""]
    ELSE [log |-> <<>>, exc |-> e]

\* faulty variant: both checks in one try statement, so a bad status skips the inspection
handler_one_try(error_codes, resp) ==
    LET a == status_check(resp)
        b == body_check(error_codes, resp)
    IN  IF a.log # <<>> \/ a.exc # "" THEN a
        ELSE b

\* lines 58-78: the records handler logs and the exception it raises ("" when it returns)
handler(error_codes, resp) ==
    LET a == status_check(resp)
        b == body_check(error_codes, resp)
    IN  IF a.exc # "" THEN a
        ELSE [log |-> a.log \o b.log, exc |-> b.exc]

----------------------------------------------------------------------------
(* The requests get, post, put and delete hand to the HTTP library *)

Request(verb, url, headers, params, data, upload) ==
    [verb |-> verb, url |-> url, headers |-> headers, params |-> params, data |-> data,
     upload |-> upload]

\* line 42
get_request(path, options) ==
    Request("GET", base_url \o path, rd.header, encode_params(options), {}, "none")

\* line 46
post_request(path, payload) ==
    Request("POST", base_url \o path, rd.header, {}, encode_params(payload), "none")

\* line 51: the body is the file object, in the state it is in when it is read
put_request(path, payload) ==
    Request("PUT", base_url \o path, rd.header, encode_params(payload), {}, file)

\* faulty variant: headers= forgotten
delete_request_no_header(path) ==
    Request("DELETE", base_url \o path, {}, {}, {}, "none")

\* line 55
delete_request(path) ==
    Request("DELETE", base_url \o path, rd.header, {}, {}, "none")

----------------------------------------------------------------------------
(* Values handed back to a caller *)

Nothing == [kind |-> "none", resp |-> NoResponse, value |-> JsonNull, exc |-> ""]
Resp(r) == [kind |-> "response", resp |-> r, value |-> JsonNull, exc |-> ""]
Decoded(v) == [kind |-> "json", resp |-> NoResponse, value |-> v, exc |-> ""]
Exc(e) == [kind |-> "exception", resp |-> NoResponse, value |-> JsonNull, exc |-> e]

\* an exception leaves get/post/put/delete, and with it the resource-group method
\* that called it: none of them has a try statement around the call
Propagate(e) ==
    /\ returned' = Exc(e)
    /\ result' = Exc(e)
    /\ raised' = e
    /\ pc' = "done"

\* requests.get/post/put/delete(...): the request goes out and comes to outcome o
Transact(req, o) ==
    /\ sent' = Append(sent, req)
    /\ response' = o.resp
    /\ IF o.exc = ""
       THEN /\ pc' = "handler"
            /\ UNCHANGED <<returned, result, raised>>
       ELSE Propagate(o.exc)

----------------------------------------------------------------------------
(* Actions *)

\* a caller constructs the client
Construct ==
    \E api_token \in { None, PyStr(""), PyStr("argtok") } : RD_init(api_token)

\* a caller invokes a resource-group method, which calls get, post, put or delete
Method_call ==
    /\ pc = "idle"
    /\ \E c \in Calls :
         /\ call' = c
         /\ desc' = Dispatch(c)
    /\ pc' = "rd"
    /\ UNCHANGED <<environ, error_codes_file, ctor_arg, rd, raised, sent, pending,
                   response, file, log, returned, result>>

\* the caller has its result or its exception and goes on: the call's locals, the
\* records it logged and the requests it issued are no longer looked at
Caller_resumes ==
    /\ pc = "done"
    /\ pc' = "idle"
    /\ call' = [method |-> "", kwargs |-> {}]
    /\ desc' = NoDesc
    /\ sent' = <<>>
    /\ pending' = ""
    /\ response' = NoResponse
    /\ file' = "none"
    /\ log' = <<>>
    /\ returned' = Nothing
    /\ result' = Nothing
    /\ raised' = ""
    /\ UNCHANGED <<environ, error_codes_file, ctor_arg, rd>>

\* RD.get up to the call of handler
RD_get ==
    /\ pc = "rd"
    /\ desc.verb = "GET"
    /\ \E o \in Outcomes : Transact(get_request(desc.path, desc.payload), o)
    /\ UNCHANGED <<environ, error_codes_file, ctor_arg, rd, call, desc, pending, file, log>>

\* RD.post up to the call of handler
RD_post ==
    /\ pc = "rd"
    /\ desc.verb = "POST"
    /\ \E o \in Outcomes : Transact(post_request(desc.path, desc.payload), o)
    /\ UNCHANGED <<environ, error_codes_file, ctor_arg, rd, call, desc, pending, file, log>>

\* RD.delete up to the call of handler
RD_delete ==
    /\ pc = "rd"
    /\ desc.verb = "DELETE"
    /\ \E o \in Outcomes : Transact(delete_request(desc.path), o)
    /\ UNCHANGED <<environ, error_codes_file, ctor_arg, rd, call, desc, pending, file, log>>

\* RD.put, line 50: open(filepath, 'rb') gives a handle or raises
RD_put_open ==
    /\ pc = "rd"
    /\ desc.verb = "PUT"
    /\ \/ /\ file' = "open"
          /\ pc' = "put_transfer"
          /\ UNCHANGED <<returned, result, raised>>
       \/ /\ file' = file
          /\ Propagate("FileNotFoundError")
    /\ UNCHANGED <<environ, error_codes_file, ctor_arg, rd, call, desc, sent, pending,
                   response, log>>

\* RD.put, line 51: the upload, inside the with-block
RD_put_transfer ==
    /\ pc = "put_transfer"
    /\ \E o \in Outcomes :
         /\ sent' = Append(sent, put_request(desc.path, desc.payload))
         /\ response' = o.resp
         /\ pending' = o.exc
    /\ pc' = "put_exit"
    /\ UNCHANGED <<environ, error_codes_file, ctor_arg, rd, call, desc, file, log,
                   returned, result, raised>>

\* faulty variant: the file opened without a with statement and never closed
RD_put_exit_keeps_open ==
    /\ pc = "put_exit"
    /\ file' = file
    /\ IF pending = ""
       THEN /\ pc' = "handler"
            /\ UNCHANGED <<returned, result, raised>>
       ELSE Propagate(pending)
    /\ UNCHANGED <<environ, error_codes_file, ctor_arg, rd, call, desc, sent, pending,
                   response, log>>

\* RD.put, leaving the with-block: the handle is closed, then the exception of the
\* upload goes on to the caller, or line 52 calls handler
RD_put_exit ==
    /\ pc = "put_exit"
    /\ file' = "closed"
    /\ IF pending = ""
       THEN /\ pc' = "handler"
            /\ UNCHANGED <<returned, result, raised>>
       ELSE Propagate(pending)
    /\ UNCHANGED <<environ, error_codes_file, ctor_arg, rd, call, desc, sent, pending,
                   response, log>>

\* RD.handler, and the return of get/post/put/delete with what it returns
RD_handler ==
    /\ pc = "handler"
    /\ LET h == handler(rd.error_codes, response) IN
         /\ log' = log \o h.log
         /\ IF h.exc = ""
            THEN /\ returned' = Resp(response)
                 /\ pc' = "method"
                 /\ UNCHANGED <<result, raised>>
            ELSE Propagate(h.exc)
    /\ UNCHANGED <<environ, error_codes_file, ctor_arg, rd, call, desc, sent, pending,
                   response, file>>

\* the resource-group method returns the response, or its .json()
Method_return ==
    /\ pc = "method"
    /\ IF desc.decode
       THEN LET j == response_json(returned.resp) IN
              IF j.exc = ""
              THEN /\ result' = Decoded(j.value)
                   /\ raised' = ""
              ELSE /\ result' = Exc(j.exc)
                   /\ raised' = j.exc
       ELSE /\ result' = returned
            /\ raised' = ""
    /\ pc' = "done"
    /\ UNCHANGED <<environ, error_codes_file, ctor_arg, rd, call, desc, sent, pending,
                   response, file, log, returned>>

Init ==
    /\ pc = "new"
    /\ environ \in { None, PyStr(""), PyStr("envtok") }
    /\ error_codes_file \in { "ok", "missing", "malformed" }
    /\ ctor_arg = Absent
    /\ rd = NoClient
    /\ raised = ""
    /\ call = [method |-> "", kwargs |-> {}]
    /\ desc = NoDesc
    /\ sent = <<>>
    /\ pending = ""
    /\ response = NoResponse
    /\ file = "none"
    /\ log = <<>>
    /\ returned = Nothing
    /\ result = Nothing

Next ==
    \/ Construct
    \/ Method_call
    \/ RD_get
    \/ RD_post
    \/ RD_put_open
    \/ RD_put_transfer
    \/ RD_put_exit
    \/ RD_delete
    \/ RD_handler
    \/ Method_return
    \/ Caller_resumes

Spec == Init /\ [][Next]_vars

----------------------------------------------------------------------------
(* Properties *)

\* the token a construction is given: the argument, else the environment's
GivenToken == IF ctor_arg # None THEN ctor_arg ELSE environ

\* handler has run on a response and the request method has ended
Handled == pc \in {"method", "done"} /\ response # NoResponse

\* the request method has ended, with a return or with an exception
RequestEnded == pc \in {"method", "done"} /\ Len(sent) > 0

HasEntry(channel) == \E i \in 1..Len(log) : log[i].channel = channel

\* the body is a JSON object with an integer under 'error_code'
CarriesCode(resp) ==
    /\ resp.body.kind = "json"
    /\ resp.body.value.type = "object"
    /\ resp.body.value.has
    /\ resp.body.value.error_code[1] = "int"

\* C1: with error_codes.json present and well-formed, construction raises
\* ValueError exactly when the token it is given (the argument unless it is None,
\* else RD_APITOKEN) is None or '', and otherwise yields a client that stores
\* that token.
C1_ConstructionNeedsToken ==
    (pc # "new" /\ error_codes_file = "ok") =>
        IF GivenToken = None \/ GivenToken = PyStr("")
        THEN pc = "failed" /\ raised = "ValueError"
        ELSE pc # "failed" /\ rd.rd_apitoken = GivenToken

C1_Witness ==
    /\ pc = "failed"
    /\ error_codes_file = "ok"
    /\ ctor_arg = PyStr("")
    /\ environ = PyStr("envtok")
    /\ raised = "ValueError"

\* C2: every request issued carries exactly the header Authorization: Bearer
\* <token>, the token being the one the construction was given.
C2_BearerHeaderOnEveryRequest ==
    \A i \in 1..Len(sent) :
        sent[i].headers = { <<"Authorization", "Bearer " \o GivenToken[2]>> }

C2_Witness ==
    /\ Len(sent) = 1
    /\ sent[1].verb = "DELETE"
    /\ sent[1].headers = { <<"Authorization", "Bearer argtok">> }

\* C3: when a get/post/put/delete call meets a transport-level failure (connection
\* error, timeout, or a status outside 2xx), the failure is logged and the call
\* returns the response; no exception leaves the call.
C3_TransportFailureLoggedAndReturned ==
    (RequestEnded /\ (response = NoResponse \/ response.status < 200 \/ response.status > 299)) =>
        /\ returned.kind = "response"
        /\ HasEntry("transport")

\* C4: for a body carrying an integer error_code, the message logged is the
\* table's entry for that code when error_codes.json defines the code, and
\* 'Unknown Error' when it does not.
C4_LoggedMessageMatchesTable ==
    \A i \in 1..Len(log) :
        (log[i].channel = "application" /\ log[i].code[1] = "int") =>
            LET key == str(log[i].code)
                message == IF \E e \in ErrorCodesFile : e[1] = key
                           THEN (CHOOSE e \in ErrorCodesFile : e[1] = key)[2]
                           ELSE "Unknown Error"
            IN  log[i].text = "Error " \o key \o ": " \o message

\* C5: whatever the status and the body of the response handler is given (JSON
\* object, other JSON, malformed, empty), handler raises nothing and returns
\* that response.
C5_HandlerReturnsItsResponse ==
    Handled => returned = Resp(response)

C5_Witness ==
    /\ pc = "method"
    /\ response.status = 500
    /\ response.body.kind = "malformed"
    /\ returned = Resp(response)
    /\ HasEntry("inspection")

\* C6: the handle put opens is open while the upload reads it, is closed when
\* handler runs, and is closed when put has returned or has let the upload's
\* exception through.
C6_UploadHandleScoped ==
    /\ \A i \in 1..Len(sent) : sent[i].verb = "PUT" => sent[i].upload = "open"
    /\ pc = "put_exit" => file = "open"
    /\ pc \in {"handler", "method", "done", "idle"} => file # "open"

C6_Witness ==
    /\ pc = "done"
    /\ desc.verb = "PUT"
    /\ Len(sent) = 1
    /\ raised = "Timeout"
    /\ file = "closed"

\* the optional parameters of the methods that have some
OptionalOf(m) ==
    CASE m = "unrestrict.check" -> {"password"}
      [] m = "unrestrict.link" -> {"password", "remote"}
      [] m = "traffic.details" -> {"start", "end"}
      [] m = "downloads.get" -> {"offset", "page", "limit"}
      [] m = "torrents.get" -> {"offset", "page", "limit", "filter"}
      [] m = "torrents.add_file" -> {"host"}
      [] m = "torrents.add_magnet" -> {"host"}
      [] OTHER -> {}

\* the required parameters of those methods that travel as request parameters
RequiredOf(m) ==
    CASE m \in {"unrestrict.check", "unrestrict.link"} -> {"link"}
      [] m = "torrents.add_magnet" -> {"magnet"}
      [] OTHER -> {}

\* the query string of a GET or PUT, the form body of a POST
ParamsOf(req) == IF req.verb = "POST" THEN req.data ELSE req.params

\* C7: a method with optional parameters sends exactly its required parameters
\* and the optional ones the caller gave a value other than None, each with the
\* string form of its value; so a call that passes none of them issues the
\* request of a call that passes None for each.
C7_UnsetOptionalsOmitted ==
    (OptionalOf(call.method) # {} /\ Len(sent) > 0) =>
        LET opt == OptionalOf(call.method)
            given == { p \in call.kwargs : p[1] \in opt /\ p[2] # None }
            unset == { n \in opt : \A p \in call.kwargs : p[1] = n => p[2] = None }
            bare == [call EXCEPT !.kwargs = { p \in call.kwargs : p[1] \notin unset }]
            explicit == [call EXCEPT !.kwargs = bare.kwargs \cup { <<n, None>> : n \in unset }]
            sentParams == ParamsOf(sent[1])
        IN  /\ { p[1] : p \in sentParams } = RequiredOf(call.method) \cup { p[1] : p \in given }
            /\ \A p \in given : <<p[1], str(p[2])>> \in sentParams
            /\ ParamsOf(sent[1]) = encode_params(Dispatch(bare).payload)
            /\ ParamsOf(sent[1]) = encode_params(Dispatch(explicit).payload)

C7_Witness ==
    /\ call.method = "downloads.get"
    /\ call.kwargs = { <<"page", None>>, <<"limit", PyInt(MaxId)>> }
    /\ Len(sent) = 1
    /\ sent[1].params = { <<"limit", str(PyInt(MaxId))>> }

\* C8: add_magnet(m) issues exactly one request, a POST to /torrents/addMagnet
\* whose magnet form parameter is 'magnet:?xt=urn:btih:' followed by str(m).
C8_MagnetLinkPrefixed ==
    (call.method = "torrents.add_magnet" /\ pc \in {"handler", "method", "done"}) =>
        LET m == Kw(call.kwargs, "magnet") IN
        /\ Len(sent) = 1
        /\ sent[1].verb = "POST"
        /\ sent[1].url = base_url \o "/torrents/addMagnet"
        /\ \A p \in sent[1].data :
               p[1] = "magnet" => p[2] = "magnet:?xt=urn:btih:" \o str(m)
        /\ \E p \in sent[1].data : p[1] = "magnet"
        /\ m = PyStr("ABCDEF") => <<"magnet", "magnet:?xt=urn:btih:ABCDEF">> \in sent[1].data
        /\ m = PyInt(0) => <<"magnet", "magnet:?xt=urn:btih:0">> \in sent[1].data
        /\ m = None => <<"magnet", "magnet:?xt=urn:btih:None">> \in sent[1].data

C8_Witness ==
    /\ call.method = "torrents.add_magnet"
    /\ pc = "done"
    /\ Kw(call.kwargs, "magnet") = PyStr("ABCDEF")
    /\ sent[1].data = { <<"magnet", "magnet:?xt=urn:btih:ABCDEF">> }

\* C9: whatever response reaches a resource-group method, the method returns a
\* value (the response or its decoded JSON body) and raises nothing.
C9_MethodsNeverRaise ==
    (pc = "done" /\ response # NoResponse) =>
        /\ result.kind \in {"response", "json"}
        /\ raised = ""

\* C10: handler's two checks are independent: a status of 400 or more is logged
\* whatever the body is, an integer error_code in the body is logged whatever
\* the status is, a 2xx response carrying one logs that record alone, and the
\* response is returned in every case.
C10_ChannelsIndependent ==
    Handled =>
        /\ response.status >= 400 => HasEntry("transport")
        /\ CarriesCode(response) => HasEntry("application")
        /\ (response.status >= 400 /\ CarriesCode(response)) =>
               /\ Len(log) = 2
               /\ log[1].channel = "transport"
               /\ log[2].channel = "application"
               /\ log[2].code = response.body.value.error_code
        /\ (response.status >= 200 /\ response.status <= 299 /\ CarriesCode(response)) =>
               /\ Len(log) = 1
               /\ log[1].channel = "application"
        /\ (response.status >= 400 /\ ~ CarriesCode(response)) => log[1].channel = "transport"
        /\ returned.kind = "response"

C10_Witness ==
    /\ pc = "method"
    /\ response.status = 404
    /\ CarriesCode(response)
    /\ Len(log) = 2
    /\ log[1].channel = "transport"
    /\ log[2].channel = "application"

====
